---- MODULE Spec2Model ----
(***************************************************************************)
(* A model of DinoGame (game_solution.py): the Tk callback-driven game     *)
(* loop, its timers, the leaderboard and the JSON save file.               *)
(*                                                                         *)
(* Lengths and speeds are integers in hundredths of a pixel, so that the   *)
(* code's 0.75 (speed step) and 1.15 (gravity) are exact: 5 px is 500.     *)
(* Tk timers (root.after) are counted per callback; a pending callback may *)
(* fire at any later step.  The 5000 ms speed-ramp timers also keep their  *)
(* phase relative to the start of the current session (see rampAligned).   *)
(***************************************************************************)
EXTENDS Integers, Sequences, FiniteSets, TLC

\* ---------------------------------------------------------------- units
Px == 100

\* ------------------------------------------------ constants of the code
GroundY == 248
JumpSpeed == -15
GravityHundredths == 115
StartSpeed == 5
SpeedStepHundredths == 75
MaxSpeed == 25
ObstacleY == 340
DinoX == 75
DinoDrawOffset == 26
LeaderboardSize == 5
PoolSize == 2
SpawnFirstMin == 750
SpawnFirstMax == 850
SpawnGapMin == 400
SpawnGapMax == 800
RecycleMin == 800
RecycleMax == 1100
DinoVerticalMargin == 7
DinoHorizontalMargin == 30
ObstacleMargin == 30
DefaultSavedDinoY == 300
\* pixel sizes of the two image files the code loads (dino_big.png, rock_new.png)
DinoWidth == 120
DinoHeight == 150
RockWidth == 100
RockHeight == 100

\* --------------------------------------------------------------- bounds
MaxSteps == 6
MaxRunTicks == 400
MaxRampIntervals == 15
MaxInserts == 6
MaxJumpTicks == 40

\* values the random draws and the text entries are taken from
SpawnFirstChoices == {SpawnFirstMin, SpawnFirstMax}
SpawnGapChoices == {SpawnGapMin, SpawnGapMax}
RecycleChoices == {RecycleMin, RecycleMax}
Names == {"", "Ann"}
BoardNames == {"Ann", "Bob"}
BoardScores == {1, 2, 3}

DefaultKeybinds == [jump |-> "space", pause |-> "p", boss_key |-> "b"]

VARIABLES
    \* --- attributes of the DinoGame object
    leaderboard,      \* self.leaderboard: sequence of <<name, score>>
    paused,           \* self.paused
    keybinds,         \* self.keybinds
    game_running,     \* self.game_running
    saved_state,      \* self.saved_state
    invincible,       \* self.invincible
    player_name,      \* self.player_name
    dino_y,           \* self.dino_y      (hundredths of a pixel)
    dino_jump,        \* self.dino_jump
    dino_speed,       \* self.dino_speed  (hundredths of a pixel per tick)
    obstacles,        \* self.obstacles with the canvas coordinates of each item
    score,            \* self.score
    obstacle_speed,   \* self.obstacle_speed (hundredths of a pixel per tick)
    attrs,            \* the attributes that have been assigned (hasattr)
    \* --- the window
    screen,           \* "menu", "settings" or "game" (the canvas, also at game over)
    canvas,           \* "none", "live" or "dead" (self.canvas destroyed with its screen)
    pause_menu,       \* the pause menu frame (Save and Quit / Resume) is displayed
    \* --- the save file
    file,             \* [kind |-> "none" | "malformed" | "json", data |-> the object]
    \* --- root.after: pending callbacks
    updatePending,    \* pending update_game callbacks
    scorePending,     \* pending increment_score callbacks
    rampAligned,      \* pending increase_speed, due a whole number of intervals after this session's start
    rampStale,        \* pending increase_speed of earlier sessions, due before the next such moment
    rampFired,        \* increase_speed of earlier sessions that already fired in this interval
    invPending,       \* pending deactivate_invincibility callbacks
    \* --- history
    session,          \* "none", "fresh" or "loaded": how the current session began
    starts,           \* sessions begun so far
    ticks,            \* update_game bodies executed so far
    intervals,        \* speed-ramp intervals elapsed since the session began
    everPaused,       \* the session has been paused at some time
    overs,            \* game_over calls in the current session
    inserted,         \* every entry game_over appended, in order
    savedFrom,        \* the attribute values at the last save
    steps             \* events (user actions and timer firings) so far

vars == << leaderboard, paused, keybinds, game_running, saved_state, invincible,
           player_name, dino_y, dino_jump, dino_speed, obstacles, score,
           obstacle_speed, attrs, screen, canvas, pause_menu, file,
           updatePending, scorePending, rampAligned, rampStale, rampFired,
           invPending, session, starts, ticks, intervals, everPaused, overs,
           inserted, savedFrom, steps >>

objVars == << leaderboard, paused, keybinds, game_running, saved_state, invincible,
              player_name, dino_y, dino_jump, dino_speed, obstacles, score,
              obstacle_speed, attrs >>
winVars == << screen, canvas, pause_menu >>
timerVars == << updatePending, scorePending, rampAligned, rampStale, rampFired,
                invPending >>
histVars == << session, starts, ticks, intervals, everPaused, overs, inserted,
               savedFrom >>


\* ------------------------------------------------------------ save file
NoData == [k \in {} |-> 0]
NoFile == [kind |-> "none", data |-> NoData]
MalformedFile == [kind |-> "malformed", data |-> NoData]

\* dict.get(key, default)
Get(d, k, default) == IF k \in DOMAIN d THEN d[k] ELSE default

\* os.path.exists(SAVE_FILE)
FileExists(f) == f.kind # "none"

\* open + json.load succeed
FileParses(f) == f.kind = "json"

\* ---------------------------------------------------------- leaderboard
\* sorted(..., key=score, reverse=True) is stable: an entry goes after every
\* entry whose score is greater than or equal to its own.
\* variant: an entry goes before the entries of equal score
RECURSIVE InsertByScore_NewestFirst(_, _)
InsertByScore_NewestFirst(sorted, e) ==
    IF sorted = << >> THEN << e >>
    ELSE IF Head(sorted)[2] > e[2]
         THEN << Head(sorted) >> \o InsertByScore_NewestFirst(Tail(sorted), e)
         ELSE << e >> \o sorted

RECURSIVE InsertByScore(_, _)
InsertByScore(sorted, e) ==
    IF sorted = << >> THEN << e >>
    ELSE IF Head(sorted)[2] >= e[2]
         THEN << Head(sorted) >> \o InsertByScore(Tail(sorted), e)
         ELSE << e >> \o sorted

RECURSIVE SortedByScore(_)
SortedByScore(s) ==
    IF s = << >> THEN << >>
    ELSE InsertByScore(SortedByScore(SubSeq(s, 1, Len(s) - 1)), s[Len(s)])

Top(s, n) == SubSeq(s, 1, IF Len(s) < n THEN Len(s) ELSE n)

\* game_over: append (player_name, score), sort descending, keep the top 5
LeaderboardInsert(lb, e) == Top(SortedByScore(Append(lb, e)), LeaderboardSize)

RECURSIVE LeaderboardInsertTimes(_, _, _)
LeaderboardInsertTimes(lb, e, n) ==
    IF n = 0 THEN lb ELSE LeaderboardInsertTimes(LeaderboardInsert(lb, e), e, n - 1)

RECURSIVE AppendTimes(_, _, _)
AppendTimes(s, e, n) == IF n = 0 THEN s ELSE AppendTimes(Append(s, e), e, n - 1)

\* ------------------------------------------------------------ collision
\* Tk places an image item's bounding box at the coordinate rounded to a pixel
RoundPx(v) == (v + (Px \div 2)) \div Px

BBox(cx, cy, w, h) ==
    LET x1 == RoundPx(cx) - (w \div 2)
        y1 == RoundPx(cy) - (h \div 2)
    IN  << x1, y1, x1 + w, y1 + h >>

\* check_collision without its invincibility test
CheckCollision_NoInvincibility(inv, dy, ob) ==
    LET d == BBox(DinoX * Px, dy + DinoDrawOffset * Px, DinoWidth, DinoHeight)
        o == BBox(ob.x, ob.y, RockWidth, RockHeight)
    IN  /\ d[3] - DinoHorizontalMargin > o[1] + ObstacleMargin
        /\ d[1] + DinoHorizontalMargin < o[3] - ObstacleMargin
        /\ d[4] - DinoVerticalMargin > o[2] + ObstacleMargin
        /\ d[2] + DinoVerticalMargin < o[4] - ObstacleMargin

\* check_collision(obstacle), with the dino drawn at (75, dino_y + 26)
CheckCollision(inv, dy, ob) ==
    IF inv THEN FALSE
    ELSE LET d == BBox(DinoX * Px, dy + DinoDrawOffset * Px, DinoWidth, DinoHeight)
             o == BBox(ob.x, ob.y, RockWidth, RockHeight)
             ad == << d[1] + DinoHorizontalMargin, d[2] + DinoVerticalMargin,
                      d[3] - DinoHorizontalMargin, d[4] - DinoVerticalMargin >>
             ao == << o[1] + ObstacleMargin, o[2] + ObstacleMargin,
                      o[3] - ObstacleMargin, o[4] - ObstacleMargin >>
         IN  /\ ad[3] > ao[1]
             /\ ad[1] < ao[3]
             /\ ad[4] > ao[2]
             /\ ad[2] < ao[4]

\* ------------------------------------------------------------ obstacles
\* variant: the second obstacle placed at the gap itself, not after the first
CreateObstacles_GapFromOrigin(first, gap) ==
    << [x |-> first * Px, y |-> ObstacleY * Px],
       [x |-> gap * Px, y |-> ObstacleY * Px] >>

\* create_obstacles: two obstacles, the second a random gap after the first
CreateObstacles(first, gap) ==
    << [x |-> first * Px, y |-> ObstacleY * Px],
       [x |-> (first + gap) * Px, y |-> ObstacleY * Px] >>

\* update_game recycling an obstacle only once it is a step left of 0
MoveObstacle_LateRecycle(ob, speed, r) ==
    IF ob.x - speed < 0 - speed
    THEN [x |-> r * Px, y |-> ObstacleY * Px]
    ELSE [ob EXCEPT !.x = ob.x - speed]

\* update_game, per obstacle: move left, and recycle to r when left of 0
MoveObstacle(ob, speed, r) ==
    IF ob.x - speed < 0
    THEN [x |-> r * Px, y |-> ObstacleY * Px]
    ELSE [ob EXCEPT !.x = ob.x - speed]

\* ---------------------------------------------------------------- speed
\* variant: increase_speed without its test of self.paused
IncreaseSpeed_IgnoringPause(speed, isPaused) ==
    IF speed < MaxSpeed * Px THEN speed + SpeedStepHundredths ELSE speed

\* increase_speed: the assignment (the reschedule is in the actions)
IncreaseSpeed(speed, isPaused) ==
    IF speed < MaxSpeed * Px /\ ~isPaused THEN speed + SpeedStepHundredths ELSE speed

RECURSIVE IncreaseSpeedTimes(_, _, _)
IncreaseSpeedTimes(speed, isPaused, n) ==
    IF n = 0 THEN speed
    ELSE IncreaseSpeedTimes(IncreaseSpeed(speed, isPaused), isPaused, n - 1)

\* ----------------------------------------------------------- update tick
\* The body of update_game past its guard, for the recycle draws r (one per
\* obstacle): the jump physics, then per obstacle move, recycle and collision.
\* hits is the number of game_over calls the loop makes.
\* variant: gravity added to the velocity before the position moves
TickJumpY_GravityFirst(y, v, jumping) ==
    IF ~jumping THEN y
    ELSE IF y + v + GravityHundredths >= GroundY * Px THEN GroundY * Px
    ELSE y + v + GravityHundredths

TickJumpY(y, v, jumping) ==
    IF ~jumping THEN y
    ELSE IF y + v >= GroundY * Px THEN GroundY * Px ELSE y + v

TickJumpSpeed(v, jumping) == IF jumping THEN v + GravityHundredths ELSE v

TickJumping(y, v, jumping) == jumping /\ ~(y + v >= GroundY * Px)

TickObstacles(obs, speed, r) ==
    [i \in 1..Len(obs) |-> MoveObstacle(obs[i], speed, r[i])]

TickHits(obs, inv, y) ==
    Cardinality({i \in 1..Len(obs) : CheckCollision(inv, y, obs[i])})


\* variant: update_game without its test of self.paused
UpdateGame_IgnoringPause(run, psd, cv, y, v, jumping, obs, speed, inv, r) ==
    IF ~run
    THEN [ran |-> FALSE, dino_y |-> y, dino_speed |-> v, dino_jump |-> jumping,
          obstacles |-> obs, hits |-> 0, scheduled |-> 0]
    ELSE [ran |-> TRUE, dino_y |-> TickJumpY(y, v, jumping),
          dino_speed |-> TickJumpSpeed(v, jumping),
          dino_jump |-> TickJumping(y, v, jumping),
          obstacles |-> TickObstacles(obs, speed, r),
          hits |-> TickHits(TickObstacles(obs, speed, r), inv, TickJumpY(y, v, jumping)),
          scheduled |-> IF cv = "live" THEN 1 ELSE 0]

\* update_game(), called directly or by its timer. run, psd, cv: game_running,
\* paused and the canvas when it is called.  scheduled is 1 when it reaches
\* root.after(30, self.update_game); a destroyed canvas raises TclError at
\* canvas.coords(self.dino, ...), after the jump physics.
UpdateGame(run, psd, cv, y, v, jumping, obs, speed, inv, r) ==
    IF ~run \/ psd
    THEN [ran |-> FALSE, dino_y |-> y, dino_speed |-> v, dino_jump |-> jumping,
          obstacles |-> obs, hits |-> 0, scheduled |-> 0]
    ELSE IF cv # "live"
    THEN [ran |-> TRUE, dino_y |-> TickJumpY(y, v, jumping),
          dino_speed |-> TickJumpSpeed(v, jumping),
          dino_jump |-> TickJumping(y, v, jumping),
          obstacles |-> obs, hits |-> 0, scheduled |-> 0]
    ELSE [ran |-> TRUE, dino_y |-> TickJumpY(y, v, jumping),
          dino_speed |-> TickJumpSpeed(v, jumping),
          dino_jump |-> TickJumping(y, v, jumping),
          obstacles |-> TickObstacles(obs, speed, r),
          hits |-> TickHits(TickObstacles(obs, speed, r), inv, TickJumpY(y, v, jumping)),
          scheduled |-> 1]

\* variant: increment_score without its test of self.paused
IncrementScore_IgnoringPause(run, psd, cv, sc) ==
    IF run
    THEN [score |-> sc + 1, scheduled |-> IF cv = "live" THEN 1 ELSE 0]
    ELSE [score |-> sc, scheduled |-> 0]

\* variant: increment_score without its root.after
IncrementScore_NoReschedule(run, psd, cv, sc) ==
    IF run /\ ~psd
    THEN [score |-> sc + 1, scheduled |-> 0]
    ELSE [score |-> sc, scheduled |-> 0]

\* increment_score(), called directly or by its timer: the new score and
\* whether root.after(100, self.increment_score) is reached (canvas.itemconfig
\* raises TclError on a destroyed canvas, after the increment).
IncrementScore(run, psd, cv, sc) ==
    IF run /\ ~psd
    THEN [score |-> sc + 1, scheduled |-> IF cv = "live" THEN 1 ELSE 0]
    ELSE [score |-> sc, scheduled |-> 0]

\* game_over(), called hits times by one update_game: the file is removed,
\* (name, sc) is appended to the leaderboard each time.
GameOverFile(f, hits) == IF hits > 0 /\ FileExists(f) THEN NoFile ELSE f

GameOverSavedState(f, ss, hits) == IF hits > 0 /\ FileExists(f) THEN FALSE ELSE ss

\* ------------------------------------------------------- save and restore
\* save_game_state: the object written to the file; kb is self.keybinds
GameState(kb) ==
    [player_name |-> IF "player_name" \in attrs THEN player_name ELSE "Player",
     score |-> IF "score" \in attrs THEN score ELSE 0,
     dino_y |-> IF "dino_y" \in attrs THEN dino_y ELSE DefaultSavedDinoY * Px,
     dino_jump |-> IF "dino_jump" \in attrs THEN dino_jump ELSE FALSE,
     dino_speed |-> IF "dino_speed" \in attrs THEN dino_speed ELSE 0,
     obstacle_speed |-> IF "obstacle_speed" \in attrs THEN obstacle_speed ELSE StartSpeed * Px,
     keybinds |-> kb,
     leaderboard |-> leaderboard,
     obstacles |-> IF canvas = "live"
                   THEN [i \in 1..Len(obstacles) |->
                            [x |-> obstacles[i].x, y |-> obstacles[i].y, image_index |-> 0]]
                   ELSE << >>]

\* self.obstacle_images has one image: Python accepts the indices 0 and -1
ValidSpriteIndex(i) == i \in {-1, 0}

\* the obstacles of the file up to the first whose image index raises IndexError
RECURSIVE RestoredObstacles(_)
RestoredObstacles(infos) ==
    IF infos = << >> THEN << >>
    ELSE IF ~ValidSpriteIndex(Get(Head(infos), "image_index", 0)) THEN << >>
    ELSE << [x |-> Get(Head(infos), "x", RecycleMin * Px),
             y |-> Get(Head(infos), "y", ObstacleY * Px)] >>
         \o RestoredObstacles(Tail(infos))

RestoreRaises(infos) ==
    \E i \in 1..Len(infos) : ~ValidSpriteIndex(Get(infos[i], "image_index", 0))

\* load_saved_state inside setup_game(load_state=True), whose assignments
\* (dino_y = 248, score = 0, obstacles = [], paused = False, ...) came first.
\* first, gap: the draws of create_obstacles when no obstacle was restored.
LoadSavedState(f, first, gap) ==
    IF ~FileParses(f)
    THEN [ok |-> FALSE, set |-> {}, player_name |-> player_name, score |-> 0,
          dino_y |-> GroundY * Px, dino_jump |-> FALSE, dino_speed |-> dino_speed,
          obstacle_speed |-> StartSpeed * Px, keybinds |-> keybinds,
          obstacles |-> << >>, paused |-> FALSE]
    ELSE LET d == f.data
             infos == Get(d, "obstacles", << >>)
             raises == RestoreRaises(infos)
             restored == RestoredObstacles(infos)
         IN  [ok |-> ~raises, set |-> {"player_name", "dino_speed"},
              player_name |-> Get(d, "player_name", "Player"),
              score |-> Get(d, "score", 0),
              dino_y |-> Get(d, "dino_y", GroundY * Px),
              dino_jump |-> Get(d, "dino_jump", FALSE),
              dino_speed |-> Get(d, "dino_speed", 0),
              obstacle_speed |-> Get(d, "obstacle_speed", StartSpeed * Px),
              keybinds |-> Get(d, "keybinds", keybinds),
              obstacles |-> IF ~raises /\ restored = << >>
                            THEN CreateObstacles(first, gap) ELSE restored,
              paused |-> ~raises]

\* setup_game(load_state=False) up to create_obstacles, for the name entered
FreshState(nm, first, gap) ==
    [ok |-> TRUE, set |-> {"player_name"},
     player_name |-> IF nm = "" THEN "Player" ELSE nm, score |-> 0,
     dino_y |-> GroundY * Px, dino_jump |-> FALSE, dino_speed |-> dino_speed,
     obstacle_speed |-> StartSpeed * Px, keybinds |-> keybinds,
     obstacles |-> CreateObstacles(first, gap), paused |-> FALSE]

SessionAttrs == {"dino_y", "dino_jump", "obstacles", "score", "obstacle_speed", "canvas"}

\* the save was not made from the three entries of the settings menu
NoEntries == << >>

\* what the history keeps of a save: the attributes as they were
SavedFrom(kb) ==
    [made |-> TRUE, entries |-> NoEntries, attrs |-> attrs, player_name |-> player_name, score |-> score,
     dino_y |-> dino_y, dino_jump |-> dino_jump, dino_speed |-> dino_speed,
     obstacle_speed |-> obstacle_speed, keybinds |-> kb]

NotSaved ==
    [made |-> FALSE, entries |-> NoEntries, attrs |-> {}, player_name |-> "", score |-> 0, dino_y |-> 0,
     dino_jump |-> FALSE, dino_speed |-> 0, obstacle_speed |-> 0,
     keybinds |-> DefaultKeybinds]


\* ----------------------------------------------------------------- Init
\* A save file left by an earlier run: Ann paused 6870 ms into a first session
\* (score 69, speed 7.25 after one ramp interval), with the second obstacle
\* about to leave the screen and the first about to reach the player, and
\* chose Save and Quit.
EarlierSave ==
    [kind |-> "json",
     data |-> [player_name |-> "Ann", score |-> 69, dino_y |-> GroundY * Px,
               dino_jump |-> FALSE, dino_speed |-> 0, obstacle_speed |-> 725,
               keybinds |-> DefaultKeybinds, leaderboard |-> << >>,
               obstacles |-> << [x |-> 13625, y |-> ObstacleY * Px, image_index |-> 0],
                                [x |-> 300, y |-> ObstacleY * Px, image_index |-> 0] >>]]

\* A save file as EarlierSave whose second obstacle names a sprite the
\* table does not have (written by another version, or edited)
ForeignSpriteSave ==
    [kind |-> "json",
     data |-> [player_name |-> "Ann", score |-> 69, dino_y |-> GroundY * Px,
               dino_jump |-> FALSE, dino_speed |-> 0, obstacle_speed |-> 725,
               keybinds |-> DefaultKeybinds, leaderboard |-> << >>,
               obstacles |-> << [x |-> 13625, y |-> ObstacleY * Px, image_index |-> 0],
                                [x |-> 300, y |-> ObstacleY * Px, image_index |-> 1] >>]]

\* A save file written by hand: only the two fields load_initial_state asks for
HandWrittenSave ==
    [kind |-> "json", data |-> [score |-> 5, keybinds |-> DefaultKeybinds]]

InitialFiles == {NoFile, MalformedFile, EarlierSave, HandWrittenSave}

\* load_initial_state: the snapshot counts when it has a score and keybinds
ValidSnapshot(f) ==
    FileParses(f) /\ "score" \in DOMAIN f.data /\ "keybinds" \in DOMAIN f.data

\* __init__ followed by load_initial_state and main_menu
InitFrom(files) ==
    /\ file \in files
    /\ leaderboard = IF ValidSnapshot(file) THEN Get(file.data, "leaderboard", << >>) ELSE << >>
    /\ keybinds = IF ValidSnapshot(file) THEN Get(file.data, "keybinds", DefaultKeybinds)
                  ELSE DefaultKeybinds
    /\ saved_state = ValidSnapshot(file)
    /\ paused = FALSE
    /\ game_running = FALSE
    /\ invincible = FALSE
    /\ attrs = {}
    /\ player_name = ""
    /\ dino_y = 0
    /\ dino_jump = FALSE
    /\ dino_speed = 0
    /\ obstacles = << >>
    /\ score = 0
    /\ obstacle_speed = 0
    /\ screen = "menu"
    /\ canvas = "none"
    /\ pause_menu = FALSE
    /\ updatePending = 0
    /\ scorePending = 0
    /\ rampAligned = 0
    /\ rampStale = 0
    /\ rampFired = 0
    /\ invPending = 0
    /\ session = "none"
    /\ starts = 0
    /\ ticks = 0
    /\ intervals = 0
    /\ everPaused = FALSE
    /\ overs = 0
    /\ inserted = leaderboard
    /\ savedFrom = NotSaved
    /\ steps = 0

Init == InitFrom(InitialFiles)

\* -------------------------------------------------------------- actions
\* The effect of one update_game call u made with name nm and score sc, on
\* the variables update_game and game_over assign.
ApplyUpdate(u, nm, sc) ==
    /\ dino_y' = u.dino_y
    /\ dino_speed' = u.dino_speed
    /\ dino_jump' = u.dino_jump
    /\ obstacles' = u.obstacles
    /\ leaderboard' = LeaderboardInsertTimes(leaderboard, << nm, sc >>, u.hits)
    /\ inserted' = AppendTimes(inserted, << nm, sc >>, u.hits)
    /\ file' = GameOverFile(file, u.hits)
    /\ saved_state' = GameOverSavedState(file, saved_state, u.hits)
    /\ savedFrom' = IF u.hits > 0 THEN NotSaved ELSE savedFrom

\* setup_game(load_state): st is the state after load_saved_state or
\* create_obstacles; then increase_speed(), update_game(), increment_score().
SetupGame(st, kind) ==
    \E r \in [1..Len(st.obstacles) -> RecycleChoices] :
    LET speed == IncreaseSpeed(st.obstacle_speed, st.paused)
        u == UpdateGame(TRUE, st.paused, "live", st.dino_y, st.dino_speed,
                        st.dino_jump, st.obstacles, speed, invincible, r)
        sc == IncrementScore(u.hits = 0, st.paused, "live", st.score)
    IN  /\ ApplyUpdate(u, st.player_name, st.score)
        /\ player_name' = st.player_name
        /\ keybinds' = st.keybinds
        /\ attrs' = attrs \cup SessionAttrs \cup st.set
        /\ paused' = st.paused
        /\ game_running' = (u.hits = 0)
        /\ score' = sc.score
        /\ obstacle_speed' = speed
        /\ screen' = "game"
        /\ canvas' = "live"
        /\ pause_menu' = (st.ok /\ st.paused)
        /\ updatePending' = updatePending + u.scheduled
        /\ scorePending' = scorePending + sc.scheduled
        /\ rampAligned' = 2
        /\ rampStale' = rampStale + rampFired + rampAligned
        /\ rampFired' = 0
        /\ session' = kind
        /\ starts' = starts + 1
        /\ ticks' = ticks + (IF u.ran THEN 1 ELSE 0)
        /\ intervals' = 0
        /\ everPaused' = st.paused
        /\ overs' = u.hits
        /\ UNCHANGED << invincible, invPending >>

\* "Start Game": save_name_and_start, start_game, setup_game()
StartGame ==
    /\ screen = "menu"
    /\ \E nm \in Names, first \in SpawnFirstChoices, gap \in SpawnGapChoices :
         SetupGame(FreshState(nm, first, gap), "fresh")

\* "Load Game" (enabled when the file exists): load_game, setup_game(True)
LoadGame ==
    /\ screen = "menu"
    /\ FileExists(file)
    /\ \E first \in SpawnFirstChoices, gap \in SpawnGapChoices :
         SetupGame(LoadSavedState(file, first, gap), "loaded")


\* a pending update_game callback fires
UpdateGameFires ==
    /\ updatePending > 0
    /\ \E r \in [1..Len(obstacles) -> RecycleChoices] :
         LET u == UpdateGame(game_running, paused, canvas, dino_y, dino_speed,
                             dino_jump, obstacles, obstacle_speed, invincible, r)
         IN  /\ ApplyUpdate(u, player_name, score)
             /\ game_running' = (game_running /\ u.hits = 0)
             /\ updatePending' = (updatePending - 1) + u.scheduled
             /\ ticks' = ticks + (IF u.ran THEN 1 ELSE 0)
             /\ overs' = overs + u.hits
    /\ UNCHANGED << paused, keybinds, invincible, player_name, score, obstacle_speed,
                    attrs, winVars, scorePending, rampAligned, rampStale, rampFired,
                    invPending, session, starts, intervals, everPaused >>

\* a pending increment_score callback fires
IncrementScoreFires ==
    /\ scorePending > 0
    /\ LET sc == IncrementScore(game_running, paused, canvas, score)
       IN  /\ score' = sc.score
           /\ scorePending' = (scorePending - 1) + sc.scheduled
    /\ UNCHANGED << leaderboard, paused, keybinds, game_running, saved_state, invincible,
                    player_name, dino_y, dino_jump, dino_speed, obstacles,
                    obstacle_speed, attrs, winVars, file, updatePending, rampAligned,
                    rampStale, rampFired, invPending, histVars >>

\* an increase_speed callback of an earlier session fires and reschedules itself
StaleRampFires ==
    /\ rampStale > 0
    /\ obstacle_speed' = IncreaseSpeed(obstacle_speed, paused)
    /\ rampStale' = rampStale - 1
    /\ rampFired' = rampFired + 1
    /\ UNCHANGED << leaderboard, paused, keybinds, game_running, saved_state, invincible,
                    player_name, dino_y, dino_jump, dino_speed, obstacles, score,
                    attrs, winVars, file, updatePending, scorePending, rampAligned,
                    invPending, histVars >>

\* 5000 ms more have passed since the session began: every increase_speed
\* callback due at that moment fires and reschedules itself (those of earlier
\* sessions, due before it, have fired)
IntervalElapses ==
    /\ rampAligned > 0
    /\ rampStale = 0
    /\ obstacle_speed' = IncreaseSpeedTimes(obstacle_speed, paused, rampAligned)
    /\ intervals' = intervals + 1
    /\ rampStale' = rampFired
    /\ rampFired' = 0
    /\ UNCHANGED << leaderboard, paused, keybinds, game_running, saved_state, invincible,
                    player_name, dino_y, dino_jump, dino_speed, obstacles, score,
                    attrs, winVars, file, updatePending, scorePending, rampAligned,
                    invPending, session, starts, ticks, everPaused, overs,
                    inserted, savedFrom >>

\* variant: jump without its test of self.paused
Jump_WhilePaused ==
    /\ "dino_jump" \in attrs
    /\ ~dino_jump
    /\ dino_jump' = TRUE
    /\ dino_speed' = JumpSpeed * Px
    /\ attrs' = attrs \cup {"dino_speed"}
    /\ UNCHANGED << leaderboard, paused, keybinds, game_running, saved_state, invincible,
                    player_name, dino_y, obstacles, score, obstacle_speed, winVars,
                    file, timerVars, histVars >>

\* the jump key: jump(event); self.dino_jump is read first (AttributeError
\* before the first session)
Jump ==
    /\ "dino_jump" \in attrs
    /\ ~dino_jump /\ ~paused
    /\ dino_jump' = TRUE
    /\ dino_speed' = JumpSpeed * Px
    /\ attrs' = attrs \cup {"dino_speed"}
    /\ UNCHANGED << leaderboard, paused, keybinds, game_running, saved_state, invincible,
                    player_name, dino_y, obstacles, score, obstacle_speed, winVars,
                    file, timerVars, histVars >>

\* the pause key or the Resume button: pause(event).  On a destroyed canvas
\* canvas.create_text / canvas.delete raise TclError right after the toggle.
Pause ==
    /\ game_running
    /\ \E r \in [1..Len(obstacles) -> RecycleChoices] :
         LET resumes == paused /\ canvas = "live"
             u == UpdateGame(game_running, ~resumes, canvas, dino_y, dino_speed,
                             dino_jump, obstacles, obstacle_speed, invincible, r)
             sc == IncrementScore(game_running /\ u.hits = 0, ~resumes, canvas, score)
         IN  /\ paused' = ~paused
             /\ pause_menu' = (~paused /\ canvas = "live")
             /\ everPaused' = TRUE
             /\ ApplyUpdate(u, player_name, score)
             /\ game_running' = (u.hits = 0)
             /\ score' = sc.score
               /\ updatePending' = updatePending + u.scheduled
             /\ scorePending' = scorePending + sc.scheduled
             /\ ticks' = ticks + (IF u.ran THEN 1 ELSE 0)
             /\ overs' = overs + u.hits
    /\ UNCHANGED << keybinds, invincible, player_name, obstacle_speed, attrs, screen,
                    canvas, rampAligned, rampStale, rampFired, invPending, session,
                    starts, intervals >>

\* variant: a boss key that toggles paused
BossKey_Toggle ==
    /\ screen = "game"
    /\ game_running
    /\ paused' = ~paused
    /\ everPaused' = TRUE
    /\ UNCHANGED << leaderboard, keybinds, game_running, saved_state, invincible,
                    player_name, dino_y, dino_jump, dino_speed, obstacles, score,
                    obstacle_speed, attrs, winVars, file, timerVars, session, starts,
                    ticks, intervals, overs, inserted, savedFrom >>

\* the boss key (bound on the game screen; main_menu unbinds it)
BossKey ==
    /\ screen = "game"
    /\ game_running
    /\ ~paused
    /\ paused' = TRUE
    /\ everPaused' = TRUE
    /\ UNCHANGED << leaderboard, keybinds, game_running, saved_state, invincible,
                    player_name, dino_y, dino_jump, dino_speed, obstacles, score,
                    obstacle_speed, attrs, winVars, file, timerVars, session, starts,
                    ticks, intervals, overs, inserted, savedFrom >>

\* the key "c": handle_cheat_code, activate_invincibility (bound by setup_game
\* and never unbound).  canvas.create_text raises on a destroyed canvas, before
\* root.after(10000, self.deactivate_invincibility).
CheatKey ==
    /\ canvas # "none"
    /\ game_running
    /\ ~invincible
    /\ invincible' = TRUE
    /\ invPending' = invPending + (IF canvas = "live" THEN 1 ELSE 0)
    /\ UNCHANGED << leaderboard, paused, keybinds, game_running, saved_state,
                    player_name, dino_y, dino_jump, dino_speed, obstacles, score,
                    obstacle_speed, attrs, winVars, file, updatePending, scorePending,
                    rampAligned, rampStale, rampFired, histVars >>

\* a pending deactivate_invincibility callback fires
DeactivateInvincibilityFires ==
    /\ invPending > 0
    /\ invincible' = FALSE
    /\ invPending' = invPending - 1
    /\ UNCHANGED << leaderboard, paused, keybinds, game_running, saved_state,
                    player_name, dino_y, dino_jump, dino_speed, obstacles, score,
                    obstacle_speed, attrs, winVars, file, updatePending, scorePending,
                    rampAligned, rampStale, rampFired, histVars >>

\* main_menu: every widget of the window is destroyed and the menu is drawn
MainMenu ==
    /\ screen' = "menu"
    /\ canvas' = IF canvas = "none" THEN "none" ELSE "dead"
    /\ pause_menu' = FALSE

\* "Save and Quit" in the pause menu: save_game_state, main_menu
SaveAndQuit ==
    /\ screen = "game"
    /\ pause_menu
    /\ file' = [kind |-> "json", data |-> GameState(keybinds)]
    /\ savedFrom' = SavedFrom(keybinds)
    /\ MainMenu
    /\ UNCHANGED << objVars, timerVars, session, starts, ticks, intervals,
                    everPaused, overs, inserted >>

\* "Restart Game" on the game-over screen: restart_game, main_menu
RestartGame ==
    /\ screen = "game"
    /\ ~game_running
    /\ MainMenu
    /\ UNCHANGED << objVars, file, timerVars, histVars >>

\* "Settings" in the main menu
SettingsMenu ==
    /\ screen = "menu"
    /\ screen' = "settings"
    /\ UNCHANGED << objVars, canvas, pause_menu, file, timerVars, histVars >>

\* "Back" in the settings menu: main_menu
SettingsBack ==
    /\ screen = "settings"
    /\ MainMenu
    /\ UNCHANGED << objVars, file, timerVars, histVars >>

\* text typed into a key entry, and entry.get().strip().lower()
KeyEntries == {"", " ", " W ", "space"}

StripLower(e) ==
    CASE e = " " -> ""
      [] e = " W " -> "w"
      [] OTHER -> e

\* variant: the stripped entry is taken even when it is empty
KeyOrDefault_NoDefault(e, default) == StripLower(e)

KeyOrDefault(e, default) == IF StripLower(e) = "" THEN default ELSE StripLower(e)

\* "Save" in the settings menu: save_keybinds for the three entries
NewKeybinds(j, p, b) ==
    [jump |-> KeyOrDefault(j, "space"), pause |-> KeyOrDefault(p, "p"),
     boss_key |-> KeyOrDefault(b, "b")]

SaveKeybindsEntries(j, p, b) ==
    /\ screen = "settings"
    /\ LET kb == NewKeybinds(j, p, b)
       IN  /\ keybinds' = kb
           /\ file' = [kind |-> "json", data |-> GameState(kb)]
           /\ savedFrom' = [SavedFrom(kb) EXCEPT
                                !.entries = [jump |-> j, pause |-> p, boss_key |-> b]]
    /\ MainMenu
    /\ UNCHANGED << leaderboard, paused, game_running, saved_state, invincible,
                    player_name, dino_y, dino_jump, dino_speed, obstacles, score,
                    obstacle_speed, attrs, timerVars, session, starts, ticks,
                    intervals, everPaused, overs, inserted >>

\* the player edits the jump entry and leaves the two others as pre-filled
SaveKeybinds ==
    \E j \in KeyEntries : SaveKeybindsEntries(j, keybinds.pause, keybinds.boss_key)

\* the player edits any of the three entries
SaveAnyKeybinds ==
    \E j \in KeyEntries, p \in KeyEntries, b \in KeyEntries : SaveKeybindsEntries(j, p, b)

\* ------------------------------------------------- leaderboard insertion
\* game_over's two leaderboard lines applied to an entry drawn from
\* BoardNames x BoardScores
BoardInsert ==
    /\ Len(inserted) < MaxInserts
    /\ \E nm \in BoardNames, sc \in BoardScores :
         /\ leaderboard' = LeaderboardInsert(leaderboard, << nm, sc >>)
         /\ inserted' = Append(inserted, << nm, sc >>)
    /\ UNCHANGED << paused, keybinds, game_running, saved_state, invincible,
                    player_name, dino_y, dino_jump, dino_speed, obstacles, score,
                    obstacle_speed, attrs, winVars, file, timerVars, session, starts,
                    ticks, intervals, everPaused, overs, savedFrom, steps >>

\* -------------------------------------------------------- specifications
\* Spec: every behaviour of the program of at most MaxSteps events
Counted(A) == steps < MaxSteps /\ A /\ steps' = steps + 1

Next ==
    \/ Counted(StartGame)
    \/ Counted(LoadGame)
    \/ Counted(UpdateGameFires)
    \/ Counted(IncrementScoreFires)
    \/ Counted(StaleRampFires)
    \/ Counted(IntervalElapses)
    \/ Counted(Jump)
    \/ Counted(Pause)
    \/ Counted(BossKey)
    \/ Counted(CheatKey)
    \/ Counted(DeactivateInvincibilityFires)
    \/ Counted(SaveAndQuit)
    \/ Counted(RestartGame)
    \/ Counted(SettingsMenu)
    \/ Counted(SettingsBack)
    \/ Counted(SaveKeybinds)

Spec == Init /\ [][Next]_vars

\* SpecRamp: one session and its speed-ramp timers, for MaxRampIntervals
\* intervals (the update and score timers do not touch obstacle_speed)
NextRamp ==
    \/ (starts = 0 /\ StartGame /\ UNCHANGED steps)
    \/ (intervals < MaxRampIntervals /\ IntervalElapses /\ UNCHANGED steps)

SpecRamp == Init /\ [][NextRamp]_vars

\* SpecRun: one session played for MaxRunTicks update ticks, the player
\* using the invincibility key
NextRun ==
    \/ (starts = 0 /\ StartGame /\ UNCHANGED steps)
    \/ (ticks < MaxRunTicks /\ UpdateGameFires /\ UNCHANGED steps)
    \/ (CheatKey /\ UNCHANGED steps)
    \/ (DeactivateInvincibilityFires /\ UNCHANGED steps)

SpecRun == Init /\ [][NextRun]_vars

\* SpecBoard: the leaderboard under MaxInserts insertions
NextBoard == BoardInsert

\* the program constructed with no save file on disk
InitBoard == Init /\ file = NoFile

SpecBoard == InitBoard /\ [][NextBoard]_vars

\* SpecKeys: the settings menu, all three entries edited, and what a load
\* makes of the file it wrote
NextKeys ==
    \/ (SettingsMenu /\ UNCHANGED steps)
    \/ (SettingsBack /\ UNCHANGED steps)
    \/ (SaveAnyKeybinds /\ UNCHANGED steps)

SpecKeys == Init /\ [][NextKeys]_vars

\* SpecJump: one session played for MaxJumpTicks update ticks, the player
\* using the jump key
NextJump ==
    \/ (starts = 0 /\ StartGame /\ UNCHANGED steps)
    \/ (ticks < MaxJumpTicks /\ UpdateGameFires /\ UNCHANGED steps)
    \/ (Jump /\ UNCHANGED steps)

SpecJump == Init /\ [][NextJump]_vars

\* SpecBoss: sessions in which the player uses the pause key and the boss
\* key only, of at most MaxSteps events
NextBoss ==
    \/ Counted(StartGame)
    \/ Counted(LoadGame)
    \/ Counted(UpdateGameFires)
    \/ Counted(IncrementScoreFires)
    \/ Counted(Pause)
    \/ Counted(BossKey)

SpecBoss == Init /\ [][NextBoss]_vars

\* SpecForeign: the program started on a save file that names an unknown sprite
InitForeign == InitFrom({ForeignSpriteSave})

SpecForeign == InitForeign /\ [][Next]_vars

\* ---------------------------------------------------------------- claims
\* C1: in every step taken while invincible is true, a running session stays
\* running and game_over is not invoked (nothing is appended to the
\* leaderboard), wherever the player and the obstacles are.
C1_InvincibleNoGameOver ==
    [][invincible => /\ (game_running => game_running')
                     /\ inserted' = inserted
                     /\ leaderboard' = leaderboard]_vars

\* C1 witness: a running, unpaused session in which an obstacle overlaps the
\* player while invincible is true
C1_Witness ==
    /\ invincible /\ game_running /\ ~paused /\ screen = "game" /\ ticks > 0
    /\ \E i \in 1..Len(obstacles) : CheckCollision(FALSE, dino_y, obstacles[i])

\* C2: within one session score never decreases, and every step taken while
\* the session is paused or not running leaves score unchanged.
C2_ScoreFrozenWhilePaused ==
    [][starts' = starts =>
          /\ score' >= score
          /\ (paused \/ ~game_running) => score' = score]_vars

\* C3: in a fresh session that was never paused, after N speed-ramp intervals
\* obstacle_speed is min(25, 5 + 0.75 * N).
C3_SpeedAfterIntervals ==
    (session = "fresh" /\ ~everPaused) =>
        obstacle_speed =
            IF StartSpeed * Px + SpeedStepHundredths * intervals < MaxSpeed * Px
            THEN StartSpeed * Px + SpeedStepHundredths * intervals
            ELSE MaxSpeed * Px

\* C4: in a session started fresh obstacle_speed is at most 25.
C4_SpeedAtMostMax == session = "fresh" => obstacle_speed <= MaxSpeed * Px


\* an update_game body that reached its obstacle loop ran in this step, in
\* the session that was already running
UpdateTickStep == ticks' = ticks + 1 /\ starts' = starts /\ canvas = "live"

\* C5 (as amended): in any update tick, an obstacle whose position after the
\* move is below 0 is reassigned in that tick to a position p with
\* 800 <= p <= 1100, and an obstacle whose position after the move is >= 0 is
\* left at that position.
C5_RecycleRange ==
    [][UpdateTickStep =>
          /\ Len(obstacles') = Len(obstacles)
          /\ \A i \in 1..Len(obstacles) :
                IF obstacles[i].x - obstacle_speed < 0
                THEN /\ RecycleMin * Px <= obstacles'[i].x
                     /\ obstacles'[i].x <= RecycleMax * Px
                ELSE obstacles'[i].x = obstacles[i].x - obstacle_speed]_vars

\* C5 as stated: the reassigned position p satisfies 800 <= p < 1100.
C5_RecycleRangeHalfOpen ==
    [][UpdateTickStep =>
          \A i \in 1..Len(obstacles) :
             IF obstacles[i].x - obstacle_speed < 0
             THEN /\ RecycleMin * Px <= obstacles'[i].x
                  /\ obstacles'[i].x < RecycleMax * Px
             ELSE obstacles'[i].x = obstacles[i].x - obstacle_speed]_vars

\* C5 witness: after update ticks of a running session, an obstacle sits at
\* the upper end of the recycle range
C5_Witness ==
    /\ game_running /\ ticks > 0 /\ screen = "game"
    /\ \E i \in 1..Len(obstacles) : obstacles[i].x = RecycleMax * Px

\* C6: whenever a session is running, the obstacle pool holds exactly 2
\* obstacles (after a fresh start and after every load, also of a missing or
\* unreadable file).
C6_PoolOfTwo == game_running => Len(obstacles) = PoolSize

\* C7: after any sequence of game-over insertions the leaderboard has
\* min(5, n) entries, is sorted by score in non-increasing order, and the
\* entry at place k is the inserted entry of rank k, where an entry ranks
\* after every entry of greater score and after every earlier entry of equal
\* score (so the 5 highest scores are kept, equal scores stay in insertion
\* order, and of two equal scores the older survives truncation).
C7_LeaderboardTopFive ==
    LET n == Len(inserted)
        Rank(j) == 1 + Cardinality({i \in 1..n :
                          \/ inserted[i][2] > inserted[j][2]
                          \/ (inserted[i][2] = inserted[j][2] /\ i < j)})
    IN  /\ Len(leaderboard) <= LeaderboardSize
        /\ Len(leaderboard) = IF n < LeaderboardSize THEN n ELSE LeaderboardSize
        /\ \A k \in 1..(Len(leaderboard) - 1) :
               leaderboard[k][2] >= leaderboard[k + 1][2]
        /\ \A j \in 1..n :
               Rank(j) <= LeaderboardSize => leaderboard[Rank(j)] = inserted[j]

\* C7 witness: more than 5 insertions, the last one dropped in favour of an
\* older entry of the same score and another name, and two kept entries of
\* equal score and different names
C7_Witness ==
    /\ Len(inserted) > LeaderboardSize
    /\ Len(leaderboard) = LeaderboardSize
    /\ inserted[Len(inserted)][2] = leaderboard[LeaderboardSize][2]
    /\ inserted[Len(inserted)][1] # leaderboard[LeaderboardSize][1]
    /\ \E k \in 1..(LeaderboardSize - 1) :
           /\ leaderboard[k][2] = leaderboard[k + 1][2]
           /\ leaderboard[k][1] # leaderboard[k + 1][1]

\* C8: a session that ends in a collision executes game_over exactly once
\* (one leaderboard entry per session), also when both obstacles overlap the
\* player in the same update tick.
C8_OneGameOverPerSession == overs <= 1

\* a Load Game step that reads a file this run wrote with save_game_state
LoadOfOwnSave == starts' = starts + 1 /\ session' = "loaded" /\ savedFrom.made

\* C9: loading a file written by save_game_state (Save and Quit from the
\* pause menu, or Save in the settings menu) leaves player_name, score,
\* dino_y, dino_jump, dino_speed and obstacle_speed at the values those
\* attributes had when the save was made, and keybinds at the keybinds saved.
C9_SaveLoadRoundTrip ==
    [][LoadOfOwnSave =>
          /\ keybinds' = savedFrom.keybinds
          /\ "player_name" \in savedFrom.attrs => player_name' = savedFrom.player_name
          /\ "score" \in savedFrom.attrs => score' = savedFrom.score
          /\ "dino_y" \in savedFrom.attrs => dino_y' = savedFrom.dino_y
          /\ "dino_jump" \in savedFrom.attrs => dino_jump' = savedFrom.dino_jump
          /\ "dino_speed" \in savedFrom.attrs => dino_speed' = savedFrom.dino_speed
          /\ "obstacle_speed" \in savedFrom.attrs =>
                 obstacle_speed' = savedFrom.obstacle_speed]_vars

\* C9 witness: a session saved in mid-jump from the pause menu has been loaded
C9_Witness ==
    /\ session = "loaded" /\ savedFrom.made /\ screen = "game" /\ paused
    /\ (SessionAttrs \cup {"player_name", "dino_speed"}) \subseteq savedFrom.attrs
    /\ savedFrom.dino_jump /\ savedFrom.dino_y < GroundY * Px
    /\ savedFrom.score > 0 /\ savedFrom.obstacle_speed > StartSpeed * Px
    /\ dino_y = savedFrom.dino_y /\ score = savedFrom.score

\* a Load Game step that reads a file with no obstacle list or an empty one
LoadOfEmptyPool ==
    /\ starts' = starts + 1 /\ session' = "loaded"
    /\ FileParses(file) /\ Get(file.data, "obstacles", << >>) = << >>

\* C10: loading a snapshot whose obstacle list is empty or absent gives a
\* session with exactly 2 obstacles, the first at a position in [750, 850]
\* and the second at the first plus an offset in [400, 800].
C10_EmptyPoolRespawned ==
    [][LoadOfEmptyPool =>
          /\ Len(obstacles') = PoolSize
          /\ SpawnFirstMin * Px <= obstacles'[1].x
          /\ obstacles'[1].x <= SpawnFirstMax * Px
          /\ SpawnGapMin * Px <= obstacles'[2].x - obstacles'[1].x
          /\ obstacles'[2].x - obstacles'[1].x <= SpawnGapMax * Px]_vars

\* C10 witness: a file the settings menu wrote with an empty obstacle list
\* has been loaded and the session holds two obstacles
C10_Witness ==
    /\ session = "loaded" /\ screen = "game" /\ paused /\ pause_menu
    /\ FileParses(file) /\ "obstacles" \in DOMAIN file.data
    /\ file.data.obstacles = << >>
    /\ Len(obstacles) = PoolSize

\* the step of a Save in the settings menu (the entries are in savedFrom')
KeybindUpdateStep ==
    screen = "settings" /\ screen' = "menu" /\ savedFrom'.entries # NoEntries

\* C11 (as amended): after a keybind update none of the three bindings is the
\* empty string; an entry that is empty or whitespace only is bound to its
\* action's default (space, p, b), and every other entry is bound to the
\* submitted text with surrounding whitespace removed and in lower case.
C11_NoEmptyBinding ==
    [][KeybindUpdateStep =>
          LET e == savedFrom'.entries
              Blank(t) == t \in {"", " "}
          IN  /\ keybinds'.jump # "" /\ keybinds'.pause # "" /\ keybinds'.boss_key # ""
              /\ keybinds'.jump = IF Blank(e.jump) THEN "space" ELSE StripLower(e.jump)
              /\ keybinds'.pause = IF Blank(e.pause) THEN "p" ELSE StripLower(e.pause)
              /\ keybinds'.boss_key =
                     IF Blank(e.boss_key) THEN "b" ELSE StripLower(e.boss_key)]_vars

\* C11 as stated: every entry that is not blank is bound as submitted.
C11_BoundAsSubmitted ==
    [][KeybindUpdateStep =>
          LET e == savedFrom'.entries
              Blank(t) == t \in {"", " "}
          IN  /\ keybinds'.jump # "" /\ keybinds'.pause # "" /\ keybinds'.boss_key # ""
              /\ keybinds'.jump = IF Blank(e.jump) THEN "space" ELSE e.jump
              /\ keybinds'.pause = IF Blank(e.pause) THEN "p" ELSE e.pause
              /\ keybinds'.boss_key = IF Blank(e.boss_key) THEN "b" ELSE e.boss_key]_vars

\* C11 witness: a Save with the jump entry empty, the pause entry whitespace
\* and the boss entry " W " has been made
C11_Witness ==
    /\ screen = "menu" /\ savedFrom.entries # NoEntries
    /\ savedFrom.entries = [jump |-> "", pause |-> " ", boss_key |-> " W "]
    /\ keybinds = [jump |-> "space", pause |-> "p", boss_key |-> "w"]

\* C12: a Load Game step is taken only from a file that parses and holds
\* both a score field and a keybinds field (otherwise the program behaves
\* as when no save exists: no load is offered).
C12_LoadOnlyValidSnapshot ==
    [][(starts' = starts + 1 /\ session' = "loaded") => ValidSnapshot(file)]_vars

\* C13: a Load Game step on a save file that is missing or malformed gives
\* the default session: score 0, dino_y 248, not jumping, obstacle_speed 5,
\* default keybinds and a pool of 2 obstacles.
C13_FailedLoadGivesDefaults ==
    [][(starts' = starts + 1 /\ session' = "loaded" /\ ~FileParses(file)) =>
          /\ score' = 0
          /\ dino_y' = GroundY * Px
          /\ ~dino_jump'
          /\ obstacle_speed' = StartSpeed * Px
          /\ keybinds' = DefaultKeybinds
          /\ Len(obstacles') = PoolSize]_vars

\* C14: a Load Game step on a snapshot holding an obstacle whose sprite index
\* is not an index of the sprite table completes the restore: the session
\* is paused and holds every saved obstacle.
C14_UnknownSpriteRestored ==
    [][(/\ starts' = starts + 1 /\ session' = "loaded" /\ FileParses(file)
        /\ RestoreRaises(Get(file.data, "obstacles", << >>))) =>
          /\ paused'
          /\ Len(obstacles') = Len(Get(file.data, "obstacles", << >>))]_vars

\* the step of a resume on the game screen: pause() on a paused session
ResumeStep ==
    /\ screen = "game" /\ game_running /\ paused /\ ~paused' /\ starts' = starts

\* C15: whenever the game screen is shown and the session is running and
\* not paused, an update_game callback and an increment_score callback are
\* pending; and a resume (after a pause by the pause key, by the boss key or
\* by a load) runs an update tick at once and, unless that tick ends the
\* game, a score increment.
C15_LoopNeverStalls ==
    /\ []((screen = "game" /\ game_running /\ ~paused) =>
             (updatePending >= 1 /\ scorePending >= 1))
    /\ [][ResumeStep =>
             /\ ticks' = ticks + 1
             /\ updatePending' >= 1
             /\ game_running' => (score' = score + 1 /\ scorePending' >= 1)]_vars

\* C15 witness: a session paused until both its callbacks had lapsed has
\* been resumed and is running with both callbacks pending again
C15_Witness ==
    /\ session = "fresh" /\ screen = "game" /\ game_running /\ ~paused /\ everPaused
    /\ updatePending = 1 /\ scorePending = 1
    /\ ~pause_menu /\ ticks >= 2 /\ score >= 2

\* C16: invincible is never true without a pending deactivate_invincibility
\* callback (so that it eventually becomes false again), in every state in
\* which the cheat key can be pressed, the menu after Save and Quit included.
C16_InvincibleHasDeactivation == invincible => invPending >= 1

\* a Load Game step on a snapshot that is valid and whose obstacles name
\* sprites of the table
LoadOfValidSnapshot ==
    /\ starts' = starts + 1 /\ session' = "loaded" /\ ValidSnapshot(file)
    /\ ~RestoreRaises(Get(file.data, "obstacles", << >>))

\* a step of a loaded session that begins and ends paused
PausedStepOfLoaded ==
    session = "loaded" /\ starts' = starts /\ paused /\ paused'

\* a Start Game step
FreshStartStep == starts' = starts + 1 /\ session' = "fresh"

\* C17: a start from a valid snapshot leaves the session paused and running
\* with the score and speed of the snapshot, and while a loaded session stays
\* paused no score, player, obstacle or speed value changes; a start without
\* a snapshot leaves the session running, not paused, with a pool of 2
\* obstacles placed by the spawn rule (and moved by the first tick).
C17_LoadedSessionPaused ==
    /\ [][LoadOfValidSnapshot =>
             /\ paused' /\ game_running'
             /\ score' = Get(file.data, "score", 0)
             /\ obstacle_speed' = Get(file.data, "obstacle_speed", StartSpeed * Px)]_vars
    /\ [][PausedStepOfLoaded =>
             /\ game_running' = game_running
             /\ UNCHANGED << score, player_name, dino_y, dino_jump, dino_speed,
                             obstacles, obstacle_speed >>]_vars
    /\ [][FreshStartStep =>
             /\ ~paused' /\ game_running'
             /\ Len(obstacles') = PoolSize
             /\ obstacles'[1].x + obstacle_speed' >= SpawnFirstMin * Px
             /\ obstacles'[1].x + obstacle_speed' <= SpawnFirstMax * Px
             /\ obstacles'[2].x - obstacles'[1].x >= SpawnGapMin * Px
             /\ obstacles'[2].x - obstacles'[1].x <= SpawnGapMax * Px]_vars

\* C17 witness: a session loaded from a valid snapshot is still paused after
\* a pending update_game callback and a speed-ramp interval have come
C17_Witness ==
    /\ session = "loaded" /\ ValidSnapshot(file) /\ paused /\ game_running
    /\ screen = "game" /\ pause_menu
    /\ intervals >= 1 /\ starts >= 2 /\ updatePending = 0
    /\ score = Get(file.data, "score", 0) /\ score > 0
    /\ Len(obstacles) = PoolSize

\* the body of update_game ran in this step on a jumping player, in the
\* session that was already running
JumpTickStep == ticks' = ticks + 1 /\ starts' = starts /\ dino_jump

\* C18 (as amended): in an update tick where jumping is true, the position is
\* first increased by the velocity and the velocity is then increased by
\* gravity 1.15 (position' = position + velocity, velocity' = velocity +
\* 1.15); if position' >= 248 the position is set to 248 and jumping to false.
C18_JumpTick ==
    [][JumpTickStep =>
          /\ dino_speed' = dino_speed + GravityHundredths
          /\ IF dino_y + dino_speed >= GroundY * Px
             THEN dino_y' = GroundY * Px /\ ~dino_jump'
             ELSE dino_y' = dino_y + dino_speed /\ dino_jump']_vars

\* C18 as stated: the velocity is increased first and the position moves by
\* the new velocity (position' = position + velocity + 1.15).
C18_JumpTickGravityFirst ==
    [][JumpTickStep =>
          /\ dino_speed' = dino_speed + GravityHundredths
          /\ IF dino_y + dino_speed + GravityHundredths >= GroundY * Px
             THEN dino_y' = GroundY * Px /\ ~dino_jump'
             ELSE dino_y' = dino_y + dino_speed + GravityHundredths /\ dino_jump']_vars

\* C18 witness: the player has jumped and landed: back on the ground, not
\* jumping, with the downward velocity of the landing tick
C18_Witness ==
    /\ game_running /\ screen = "game" /\ "dino_speed" \in attrs
    /\ ~dino_jump /\ dino_y = GroundY * Px /\ dino_speed > 0

\* C19: in every state of a session that was started fresh or loaded from a
\* file save_game_state wrote, the player is on the ground (dino_y = 248)
\* whenever dino_jump is false.
C19_GroundedWhenNotJumping ==
    (session = "fresh" \/ (session = "loaded" /\ savedFrom.made)) =>
        (~dino_jump => dino_y = GroundY * Px)

\* C20: in every state of a session the velocity dino_speed is 0 whenever
\* dino_jump is false; in particular it is 0 after the player has landed.
C20_AtRestWhenNotJumping == session # "none" => (~dino_jump => dino_speed = 0)

\* C21: an update tick schedules the next one only if the session is still
\* running at its end: after a tick in which a collision ends the session
\* no update_game callback is pending.
C21_NoRescheduleAfterGameOver == [][overs' > overs => updatePending' = 0]_vars

\* a step of a session that begins and ends paused: a callback firing, a
\* jump request or any other event but a resume
PausedStep == paused /\ paused' /\ starts' = starts

\* C22: while paused is true, the firing of an update_game, increment_score
\* or increase_speed callback and a jump request leave score, dino_y,
\* dino_speed, dino_jump, the obstacles and obstacle_speed unchanged.
C22_FrozenWhilePaused ==
    [][PausedStep =>
          UNCHANGED << score, dino_y, dino_speed, dino_jump, obstacles,
                       obstacle_speed >>]_vars

\* C22 witness: a fresh session was paused, and its update_game and
\* increment_score callbacks and a speed-ramp interval have come since
C22_Witness ==
    /\ session = "fresh" /\ screen = "game" /\ game_running /\ paused
    /\ updatePending = 0 /\ scorePending = 0 /\ intervals >= 1
    /\ obstacle_speed = StartSpeed * Px + SpeedStepHundredths
    /\ score = 1 /\ ticks = 1

\* C23: right after the first fresh start exactly one update_game, one
\* increment_score and one increase_speed callback are pending, and starting
\* a further session does not raise the number of pending increase_speed
\* callbacks.
C23_OneChainEach ==
    [][starts' = starts + 1 =>
          /\ (starts = 0 /\ session' = "fresh") =>
                 /\ updatePending' = 1
                 /\ scorePending' = 1
                 /\ rampAligned' + rampStale' + rampFired' = 1
          /\ starts >= 1 =>
                 rampAligned' + rampStale' + rampFired'
                     <= rampAligned + rampStale + rampFired]_vars

\* C24: within a session dino_jump becomes true only by a jump made while
\* not jumping and not paused, which sets dino_speed to -15 and changes no
\* other session value; while jumping the velocity is never set back to -15
\* (no double jump), and while paused dino_y, dino_speed and dino_jump do not
\* change (no jump during pause).
C24_JumpOnlyFromRest ==
    /\ [][(starts' = starts /\ ~dino_jump /\ dino_jump') =>
             /\ ~paused
             /\ dino_speed' = JumpSpeed * Px
             /\ UNCHANGED << dino_y, score, obstacles, obstacle_speed, paused,
                             game_running >>]_vars
    /\ [][(starts' = starts /\ dino_jump) =>
             (dino_speed' = dino_speed \/ dino_speed' = dino_speed + GravityHundredths)]_vars
    /\ [][(starts' = starts /\ paused /\ paused') =>
             UNCHANGED << dino_y, dino_speed, dino_jump >>]_vars

\* C24 witness: the player has just jumped from rest in a running session
C24_Witness ==
    /\ screen = "game" /\ game_running /\ ~paused
    /\ dino_jump /\ dino_speed = JumpSpeed * Px /\ dino_y = GroundY * Px

\* the boss key pausing a running session: paused turns true on the game
\* screen and no pause menu is shown
BossPauseStep ==
    /\ screen = "game" /\ starts' = starts /\ game_running
    /\ ~paused /\ paused' /\ ~pause_menu'

\* a session paused by the boss key
BossPaused == screen = "game" /\ game_running /\ paused /\ ~pause_menu

\* C25: the boss key pressed in a running, unpaused session sets paused and
\* changes no other session value; on the game screen paused turns false
\* only by pause(), whose resume runs an update tick (the boss key never
\* unpauses); and a session paused by the boss key can be resumed by pause().
C25_BossKeyPauses ==
    /\ [][BossPauseStep =>
             UNCHANGED << game_running, invincible, player_name, score, dino_y,
                          dino_jump, dino_speed, obstacles, obstacle_speed,
                          keybinds, leaderboard, file, timerVars >>]_vars
    /\ [][(screen = "game" /\ starts' = starts /\ paused /\ ~paused') =>
             ticks' = ticks + 1]_vars
    /\ [](BossPaused => ENABLED (Pause /\ ~paused'))

\* C25 witness: a fresh session paused by the boss key
C25_Witness == BossPaused /\ session = "fresh" /\ score >= 1

\* C26: at every moment at most one update_game callback and at most one
\* increment_score callback are pending, for every interleaving of pause,
\* resume and boss-key events with the callbacks.
C26_AtMostOnePending == updatePending <= 1 /\ scorePending <= 1

\* C27: whenever the main menu is shown no session is running
\* (game_running is false), so that the pause, boss and cheat keys pressed in
\* the menu change nothing.
C27_NoSessionAtMenu == screen = "menu" => ~game_running

\* C28: once game_over has removed the save file, no step taken while the
\* session is over (restart, settings, saving keybinds) brings a save file
\* back: Load Game stays unavailable until a later session is saved.
C28_NoSaveAfterGameOver ==
    [][(overs >= 1 /\ ~game_running /\ ~FileExists(file)) => ~FileExists(file')]_vars
====
